---- MODULE Spec2Model ----
(***************************************************************************)
(* Fluid-shader render surfaces of demos/glassmorphism.js: shader          *)
(* compilation and linking (createShader, createProgram), the FluidRenderer *)
(* class (constructor, init, render, start, stop, destroy), the page        *)
(* wiring (initHeroCanvas, initExamples, initIntersectionObserver, cleanup) *)
(* and the host's animation-frame callback list.                            *)
(*                                                                           *)
(* JavaScript runs every handler to completion, so each action below is one *)
(* whole handler.  The surfaces are fully partitioned: a renderer only      *)
(* touches its own fields, its own canvas' context and its own callbacks.   *)
(***************************************************************************)
EXTENDS Integers, Sequences, FiniteSets, TLC

\* Size of the pool the animation-frame handles are drawn from.  A handle is
\* only ever compared with the handles that are pending or stored in
\* animationFrame, so a handle that is neither can be handed out again.
MaxHandle == 5

\* hero: #fluid-canvas (initHeroCanvas).  btn: the liquid button's canvas.
\* card: .card-fluid-bg.  The image-distortion and loader canvases are wired
\* exactly like card (constructed, started, pushed to exampleRenderers).
Surfaces == {"hero", "btn", "card"}

\* exampleRenderers after initExamples, in push order.
ExampleOrder == <<"btn", "card">>

Range(f) == {f[i] : i \in DOMAIN f}

\* What the graphics driver answers during one construction:
\* ctx = canvas.getContext('webgl') returned a context, vs / fs = COMPILE_STATUS
\* of the two stages, link = LINK_STATUS.
Outcomes ==
  { o \in [ctx : BOOLEAN, vs : BOOLEAN, fs : BOOLEAN, link : BOOLEAN] :
      /\ (~o.ctx => (o.vs /\ o.fs /\ o.link))
      /\ (~(o.vs /\ o.fs) => o.link) }

AllOk == [ctx |-> TRUE, vs |-> TRUE, fs |-> TRUE, link |-> TRUE]

\* The compiler's info log of a stage (gl.getShaderInfoLog).
InfoLog(stage) == IF stage = "vs" THEN "vertex info log" ELSE "fragment info log"

VARIABLES
  loaded,            \* DOMContentLoaded has run
  heroRenderer,      \* "null" or the surface of the hero renderer
  exampleRenderers,  \* sequence of the surfaces of the example renderers
  surf,              \* surface -> renderer record
  visible,           \* canvas -> last isIntersecting reported ("unknown" before)
  lastEvent,         \* the host event whose handler ran last: <<type, target, detail>>
  calls,             \* renderer methods that handler invoked: {<<method, renderer, isRunning before>>}
  state,             \* the glass controls' state object (blur, opacity, saturation, borderOpacity)
  inputs,            \* value strings of the four fluid sliders
  pbr,               \* a PBRMaterialConfig instance
  material,          \* roughness and metalness of the materials demo's MeshPhysicalMaterial
  gpu,               \* a GPUComputeParams instance
  positions,         \* the compute demo's position array
  velocities,        \* the compute demo's velocity array (geometry.userData.velocities)
  stepped,           \* the arrays before the last physics step and the arguments of that step
  simSpeed,          \* the compute demo's simSpeed
  simType,           \* the compute demo's simType
  colors,            \* the compute demo's color array
  particleCount,     \* the compute demo's particleCount
  scene,             \* the compute demo's scene: the Points objects in it and how many were made
  fr,                \* a FluidRenderer, with its time, mouse, listeners and canvas size
  clock,             \* performance.now(), in milliseconds
  three,             \* a ThreeVisualization
  watch,             \* the last call's argument, the event before it, when start and
                     \* stop last took effect and whether a frame was rendered since
  ready,             \* init of the 3D page has run
  initializedDemos,  \* the Set initDemoByTab keeps
  demos,             \* demo -> how often its initialiser ran, its renderers, its loops, its renders
  activeTab,         \* the tab that carries the active class
  canvases           \* the demos whose canvas element is in the document

\* The compute demo's variables besides the arrays the physics loop works on.
computeVars == <<colors, particleCount, scene>>

\* One FluidRenderer with its clock, a ThreeVisualization, and what was seen
\* of the calls on them.
surfaceVars == <<fr, clock, three, watch>>

\* The 3D page: its tabs and the demos behind them.
tabVars == <<ready, initializedDemos, demos, activeTab, canvases>>

\* The variables of the demos other than the parameter objects.
otherVars == <<computeVars, surfaceVars, tabVars>>

\* The variables of the parameter objects and of the particle arrays.
busVars == <<state, inputs, pbr, material, gpu, positions, velocities, stepped, simSpeed, simType, otherVars>>

\* The variables of the fluid page.
pageVars == <<loaded, heroRenderer, exampleRenderers, surf, visible, calls>>

vars == <<loaded, heroRenderer, exampleRenderers, surf, visible, lastEvent, calls,
          state, inputs, pbr, material, gpu, positions, velocities, stepped, simSpeed, simType, otherVars>>

----------------------------------------------------------------------------
\* JavaScript numbers.  Parameter values are kept in hundredths (0.5 is 50);
\* NaN is a value of its own, as in the language.

Num(v) == [t |-> "number", v |-> v]

NaN == [t |-> "NaN", v |-> 0]

IsNaN(x) == x.t = "NaN"

\* lo <= x <= hi, which is false of NaN.
InRange(x, lo, hi) == x.t = "number" /\ lo <= x.v /\ x.v <= hi

\* Value strings a control can deliver: empty, negative, fractional, and
\* numbers beyond the declared ranges.
ControlStrings == {"", "-1", "0.5", "5", "60", "400"}

\* parseFloat on ControlStrings and on the strings the presets write.
parseFloat(str) ==
  CASE str = ""    -> NaN
    [] str = "-1"  -> Num(-100)
    [] str = "0.2" -> Num(20)
    [] str = "0.3" -> Num(30)
    [] str = "0.5" -> Num(50)
    [] str = "0.7" -> Num(70)
    [] str = "0.8" -> Num(80)
    [] str = "1"   -> Num(100)
    [] str = "2"   -> Num(200)
    [] str = "3"   -> Num(300)
    [] str = "5"   -> Num(500)
    [] str = "60"  -> Num(6000)
    [] str = "400" -> Num(40000)

\* parseInt on the same strings: the digits before the decimal point.
parseInt(str) ==
  LET f == parseFloat(str)
  IN IF IsNaN(f) THEN NaN
     ELSE IF f.v >= 0 THEN Num((f.v \div 100) * 100)
     ELSE Num(-(((-f.v) \div 100) * 100))

Undefined == [t |-> "undefined", v |-> 0]

FluidFields == {"viscosity", "distortion", "speed", "colorShift"}

\* this.params of a renderer whose constructor returned before assigning it.
NoParams ==
  [viscosity |-> Undefined, distortion |-> Undefined, speed |-> Undefined,
   colorShift |-> Undefined, mouseTracking |-> FALSE]

\* The options each renderer is constructed with.
Options ==
  [hero |-> [viscosity |-> Num(50), distortion |-> Num(30), speed |-> Num(100),
             colorShift |-> Num(50), mouseTracking |-> TRUE],
   btn  |-> [viscosity |-> Num(40), distortion |-> Num(40), speed |-> Num(150),
             colorShift |-> Num(60), mouseTracking |-> TRUE],
   card |-> [viscosity |-> Num(30), distortion |-> Num(30), speed |-> Num(60),
             colorShift |-> Num(50), mouseTracking |-> FALSE]]

\* A surface before its renderer is constructed.  JavaScript's undefined and
\* null are kept apart where the code can tell them apart; animationFrame 0
\* stands for both (the code only tests its truthiness).
\*   callbacks : the host's animation-frame callback list, restricted to the
\*               loops of this renderer, in registration order
\*   objects   : the objects alive on the canvas' WebGL context
\*   linkCalls : number of gl.linkProgram calls made on the context
\*   console   : what console.error has printed for this surface
\*   params    : this.params; assigned only when a context was obtained
\*   renders / draws : render() invocations and gl.drawArrays calls made in
\*               the host frame that has just run (0 after any other step)
Blank ==
  [ outcome        |-> AllOk,
    gl             |-> "null",
    program        |-> "undefined",
    positionBuffer |-> "undefined",
    vertexShader   |-> "undefined",
    fragmentShader |-> "undefined",
    params         |-> NoParams,
    isRunning      |-> "undefined",
    animationFrame |-> 0,
    callbacks      |-> <<>>,
    objects        |-> {},
    linkCalls      |-> 0,
    console        |-> {},
    renders        |-> 0,
    draws          |-> 0,
    destroyed      |-> FALSE ]

\* const state = {...}; const defaults = { ...state }
defaults ==
  [blur |-> Num(1000), opacity |-> Num(10), saturation |-> Num(18000), borderOpacity |-> Num(20)]

\* The ranges validateGlassValues declares for the glass fields.
GlassRange ==
  [blur |-> <<0, 5000>>, opacity |-> <<0, 100>>,
   saturation |-> <<0, 30000>>, borderOpacity |-> <<0, 100>>]

----------------------------------------------------------------------------
\* WebGL utilities

createShaderLeaky(r, stage, ok) ==
  IF ok
  THEN [r |-> [r EXCEPT !.objects = @ \cup {stage}], shader |-> stage]
  ELSE [r |-> [r EXCEPT !.objects = @ \cup {stage},
                        !.console = @ \cup {<<"Shader compilation error:", InfoLog(stage)>>}],
        shader |-> "null"]

\* createShader: the shader object is created, compiled, and on failure
\* logged, deleted and null is returned.
createShader(r, stage, ok) ==
  IF ok
  THEN [r |-> [r EXCEPT !.objects = @ \cup {stage}], shader |-> stage]
  ELSE [r |-> [r EXCEPT !.objects = (@ \cup {stage}) \ {stage},
                        !.console = @ \cup {<<"Shader compilation error:", InfoLog(stage)>>}],
        shader |-> "null"]

\* createProgram: the program is created, both shaders attached, linked, and
\* on failure logged, deleted and null is returned.  The shaders are left as
\* they are in both cases.
createProgram(r, ok) ==
  LET linked == [r EXCEPT !.objects = @ \cup {"program"}, !.linkCalls = @ + 1]
  IN IF ok
     THEN [r |-> linked, program |-> "program"]
     ELSE [r |-> [linked EXCEPT !.objects = @ \ {"program"},
                                !.console = @ \cup {<<"Program linking error:", "program info log">>}],
           program |-> "null"]

----------------------------------------------------------------------------
\* FluidRenderer

initNoCompileCheck(r) ==
  LET v  == createShader(r, "vs", r.outcome.vs)
      f  == createShader(v.r, "fs", r.outcome.fs)
      r2 == [f.r EXCEPT !.vertexShader = v.shader, !.fragmentShader = f.shader]
      p  == createProgram(r2, r.outcome.link /\ r.outcome.vs /\ r.outcome.fs)
      r3 == [p.r EXCEPT !.program = p.program]
  IN IF p.program = "null"
     THEN [r3 EXCEPT !.console = @ \cup {<<"Failed to create program", "">>}]
     ELSE [r3 EXCEPT !.positionBuffer = "buffer", !.objects = @ \cup {"buffer"}]

\* init: both stages are compiled first; the program is only created when
\* both returned a shader.
init(r) ==
  LET v  == createShader(r, "vs", r.outcome.vs)
      f  == createShader(v.r, "fs", r.outcome.fs)
      r2 == [f.r EXCEPT !.vertexShader = v.shader, !.fragmentShader = f.shader]
  IN IF v.shader = "null" \/ f.shader = "null"
     THEN [r2 EXCEPT !.console = @ \cup {<<"Failed to create shaders", "">>}]
     ELSE LET p  == createProgram(r2, r.outcome.link)
              r3 == [p.r EXCEPT !.program = p.program]
          IN IF p.program = "null"
             THEN [r3 EXCEPT !.console = @ \cup {<<"Failed to create program", "">>}]
             ELSE [r3 EXCEPT !.positionBuffer = "buffer", !.objects = @ \cup {"buffer"}]

\* constructor: without a context it returns before any field but canvas and
\* gl is assigned, so isRunning, animationFrame and program stay undefined.
constructor(o, options) ==
  LET r == [Blank EXCEPT !.outcome = o,
                         !.gl = IF o.ctx THEN "ctx" ELSE "null"]
  IN IF ~o.ctx
     THEN [r EXCEPT !.console = {<<"WebGL not supported", "">>, <<"Failed to initialize WebGL", "">>}]
     ELSE init([r EXCEPT !.params = options, !.isRunning = "false", !.animationFrame = 0])

\* render: returns before drawing when this.program is undefined or null; a
\* program that was deleted is still a truthy reference.
render(r) ==
  IF r.program \in {"undefined", "null"}
  THEN [r EXCEPT !.renders = @ + 1]
  ELSE [r EXCEPT !.renders = @ + 1, !.draws = @ + 1]

\* updateParams: Object.assign(this.params, params).  Without a context
\* this.params is undefined and Object.assign throws, leaving all as it was.
updateParams(r, partial) ==
  IF r.gl = "null"
  THEN r
  ELSE [r EXCEPT !.params =
          [k \in DOMAIN r.params |->
             IF k \in DOMAIN partial THEN partial[k] ELSE r.params[k]]]

\* Handles requestAnimationFrame may return: free in the pool, and not one
\* of the handles the running frame still has to visit.
FreeHandles(r, avoid) ==
  (1..MaxHandle) \ (Range(r.callbacks) \cup {r.animationFrame} \cup avoid)

NewHandle(r, avoid) ==
  CHOOSE h \in FreeHandles(r, avoid) : \A g \in FreeHandles(r, avoid) : h <= g

\* this.animationFrame = requestAnimationFrame(loop)
RequestFrame(r, avoid) ==
  LET h == NewHandle(r, avoid)
  IN [r EXCEPT !.animationFrame = h, !.callbacks = Append(@, h)]

\* cancelAnimationFrame(handle)
CancelFrame(cbs, handle) == SelectSeq(cbs, LAMBDA h : h # handle)

startUnguarded(r) ==
  RequestFrame([r EXCEPT !.isRunning = "true"], {})

\* start: no-op when isRunning is truthy (undefined is not).
start(r) ==
  IF r.isRunning = "true"
  THEN r
  ELSE RequestFrame([r EXCEPT !.isRunning = "true"], {})

stopNoCancel(r) ==
  [r EXCEPT !.isRunning = "false"]

\* stop
stop(r) ==
  IF r.animationFrame # 0
  THEN [r EXCEPT !.isRunning = "false",
                 !.callbacks = CancelFrame(@, r.animationFrame),
                 !.animationFrame = 0]
  ELSE [r EXCEPT !.isRunning = "false"]

\* destroy: stop, then on a context deleteBuffer(positionBuffer) and
\* deleteProgram(program); deleting undefined or null does nothing.
destroy(r) ==
  LET s == stop(r)
  IN IF s.gl # "null"
     THEN [s EXCEPT !.objects = @ \ {s.positionBuffer, s.program}]
     ELSE s

\* The loop closure of start, run by the host for one fired handle.
\* stopInside: stop() of this renderer is invoked while render is executing.
loop(r, avoid, stopInside) ==
  IF r.isRunning # "true"
  THEN r
  ELSE LET r1 == render(r)
           r2 == IF stopInside THEN stop(r1) ELSE r1
       IN RequestFrame(r2, avoid)

\* The host runs the callbacks that were pending when the frame began, in
\* registration order, skipping those cancelled in the meantime.
RECURSIVE RunCallbacks(_, _, _, _)
RunCallbacks(r, snapshot, i, stopInside) ==
  IF i > Len(snapshot)
  THEN r
  ELSE IF snapshot[i] \in Range(r.callbacks)
       THEN RunCallbacks(
              loop([r EXCEPT !.callbacks = CancelFrame(@, snapshot[i])],
                   Range(snapshot), stopInside),
              snapshot, i + 1, stopInside)
       ELSE RunCallbacks(r, snapshot, i + 1, stopInside)

NoFrameCount(r) == [r EXCEPT !.renders = 0, !.draws = 0]

FrameOf(r, stopInside) ==
  RunCallbacks(NoFrameCount(r), r.callbacks, 1, stopInside)

----------------------------------------------------------------------------
\* FluidRenderer: time, mouse and canvas.  The operators above leave these
\* fields alone; the ones below add what constructor, render, start and the
\* loop do to them.  this.time is kept in thousandths, deltaTime in
\* milliseconds, mouse and canvas sizes in backing-store pixels.

MaxClock == 3

\* canvas.getBoundingClientRect() while the pointer is over the canvas.
Rect == [left |-> 10, top |-> 20, width |-> 2, height |-> 2]

\* The box setupCanvas and resize() find during construction: the same, or
\* an empty one for a canvas that is not laid out at that time.
InitRects == {Rect, [left |-> 0, top |-> 0, width |-> 0, height |-> 0]}

\* window.devicePixelRatio
PixelRatios == {1, 3}

\* The fields a constructor that returns early leaves unassigned, and the
\* canvas size before setupCanvas has set it.
\*   lastTime : the lastTime of the loop closure of the latest start (stop
\*              cancels the pending callback of any earlier closure)
\*   deltas   : the deltaTime of each render call of the last call
Unassigned ==
  [ mouse     |-> [t |-> "undefined", x |-> 0, y |-> 0],
    time      |-> Undefined,
    lastTime  |-> 0,
    listeners |-> {},
    canvas    |-> [width |-> 0, height |-> 0],
    deltas    |-> <<>> ]

\* setupCanvas and resize: canvas.width and canvas.height from the layout
\* box and Math.min(window.devicePixelRatio, 2).
resize(rect, devicePixelRatio) ==
  LET dpr == IF devicePixelRatio < 2 THEN devicePixelRatio ELSE 2
  IN [width |-> rect.width * dpr, height |-> rect.height * dpr]

\* setupMouseTracking: the two listeners it adds to the canvas.
setupMouseTracking == {"mousemove", "mouseleave"}

\* constructor with the canvas size setupCanvas sets, mouse, time, and what
\* init does after the buffer is made: setupMouseTracking when
\* params.mouseTracking, then resize.
constructorAt(o, options, rect, devicePixelRatio) ==
  LET r == [constructor(o, options) @@ Unassigned
              EXCEPT !.canvas = resize(rect, devicePixelRatio)]
  IN IF ~o.ctx
     THEN r
     ELSE LET r1 == [r EXCEPT !.mouse = [t |-> "object", x |-> 0, y |-> 0],
                              !.time = Num(0)]
          IN IF r1.positionBuffer # "buffer"
             THEN r1
             ELSE [r1 EXCEPT !.listeners = IF options.mouseTracking
                                           THEN setupMouseTracking ELSE {},
                             !.canvas = resize(rect, devicePixelRatio)]

\* the listener without the flip of the y axis
mousemoveNoFlip(r, clientX, clientY) ==
  [r EXCEPT !.mouse.x = (clientX - Rect.left) * (r.canvas.width \div Rect.width),
            !.mouse.y = (clientY - Rect.top) * (r.canvas.height \div Rect.height)]

\* The mousemove listener.  The quotients are whole for the sizes used here.
mousemove(r, clientX, clientY) ==
  [r EXCEPT !.mouse.x = (clientX - Rect.left) * (r.canvas.width \div Rect.width),
            !.mouse.y = r.canvas.height
                          - (clientY - Rect.top) * (r.canvas.height \div Rect.height)]

\* The mouseleave listener.
mouseleave(r) == [r EXCEPT !.mouse.x = 0, !.mouse.y = 0]

\* render(deltaTime): this.time += deltaTime * 0.001 once past the test of
\* this.program, then the draw.
renderAt(r, deltaTime) ==
  IF r.program \in {"undefined", "null"}
  THEN render(r)
  ELSE [render(r) EXCEPT !.time = Num(@.v + deltaTime)]

\* start that keeps the lastTime of an earlier loop
startAtStale(r, now) ==
  IF r.isRunning = "true" THEN r ELSE start(r)

\* start: let lastTime = performance.now() when it takes effect.
startAt(r, now) ==
  IF r.isRunning = "true" THEN r ELSE [start(r) EXCEPT !.lastTime = now]

\* The loop closure, called by the host with the frame's timestamp.
loopAt(r, avoid, currentTime) ==
  IF r.isRunning # "true"
  THEN r
  ELSE LET deltaTime == currentTime - r.lastTime
           r1 == [r EXCEPT !.lastTime = currentTime, !.deltas = Append(@, deltaTime)]
       IN RequestFrame(renderAt(r1, deltaTime), avoid)

RECURSIVE RunCallbacksAt(_, _, _, _)
RunCallbacksAt(r, snapshot, i, currentTime) ==
  IF i > Len(snapshot)
  THEN r
  ELSE IF snapshot[i] \in Range(r.callbacks)
       THEN RunCallbacksAt(
              loopAt([r EXCEPT !.callbacks = CancelFrame(@, snapshot[i])],
                     Range(snapshot), currentTime),
              snapshot, i + 1, currentTime)
       ELSE RunCallbacksAt(r, snapshot, i + 1, currentTime)

\* The counters of the last call, cleared before the next one.
Fresh(r) == [NoFrameCount(r) EXCEPT !.deltas = <<>>]

FrameAt(r, currentTime) == RunCallbacksAt(Fresh(r), r.callbacks, 1, currentTime)

----------------------------------------------------------------------------
\* ThreeVisualization
\*   callbacks : the pending animation-frame callbacks of animate
\*   mounted   : renderer.domElement is a child of the container
\*   threw     : the exception the last call ended with

\* The handle requestAnimationFrame returns next.
NextId(t) == IF t.animationId = 1 THEN 2 ELSE 1

\* animate
animate(t) ==
  IF ~t.isAnimating
  THEN t
  ELSE [t EXCEPT !.animationId = NextId(t), !.callbacks = Append(@, NextId(t))]

\* constructor: the listener is added, the canvas appended, animate called.
ThreeVisualization ==
  animate([ isAnimating    |-> TRUE,
            animationId    |-> 0,
            callbacks      |-> <<>>,
            resizeListener |-> TRUE,
            controls       |-> "live",
            renderer       |-> "live",
            mounted        |-> TRUE,
            threw          |-> "none" ])

\* dispose: container.removeChild(renderer.domElement) throws a
\* NotFoundError when the canvas is not a child of the container.
dispose(t) ==
  [t EXCEPT !.isAnimating = FALSE,
            !.callbacks = IF t.animationId # 0 THEN CancelFrame(@, t.animationId) ELSE @,
            !.resizeListener = FALSE,
            !.controls = "disposed",
            !.renderer = "disposed",
            !.mounted = FALSE,
            !.threw = IF t.mounted THEN "none" ELSE "NotFoundError"]

----------------------------------------------------------------------------
\* PBRMaterialConfig

\* ToNumber: undefined becomes NaN.
ToNumber(x) == IF x.t = "number" THEN x ELSE NaN

\* Math.min and Math.max of two arguments: NaN when either is NaN.
MathMin(a, b) ==
  IF IsNaN(ToNumber(a)) \/ IsNaN(ToNumber(b)) THEN NaN
  ELSE IF a.v <= b.v THEN a ELSE b

MathMax(a, b) ==
  IF IsNaN(ToNumber(a)) \/ IsNaN(ToNumber(b)) THEN NaN
  ELSE IF a.v >= b.v THEN a ELSE b

\* clamp: Math.max(min, Math.min(max, value))
clamp(value, min, max) == MathMax(min, MathMin(max, value))

\* options.x ?? d
Nullish(x, d) == IF x.t = "undefined" THEN d ELSE x

\* new PBRMaterialConfig(options), the two clamped fields
PBRMaterialConfig(options) ==
  [metalness |-> clamp(Nullish(options.metalness, Num(50)), Num(0), Num(100)),
   roughness |-> clamp(Nullish(options.roughness, Num(50)), Num(0), Num(100))]

setMetalness(c, value) == [c EXCEPT !.metalness = clamp(value, Num(0), Num(100))]

setRoughness(c, value) == [c EXCEPT !.roughness = clamp(value, Num(0), Num(100))]

\* Arguments of type number handed to the constructor and the setters.
NumericArgs == {Num(-50), Num(0), Num(20), Num(80), Num(100), Num(150), Num(200), NaN}

----------------------------------------------------------------------------
\* GPUComputeParams
\*
\* particleCount is a double holding a whole number; the bitwise & of
\* isPowerOf2 only sees its low 32 bits.  It is kept as three base-65536
\* digits, least significant first, so that counts of 2^32 and more exist.

Limb == 65536

\* Largest count passed to setParticleCount.
MaxCount == 40

RECURSIVE Pow2(_)
Pow2(k) == IF k = 0 THEN 1 ELSE 2 * Pow2(k - 1)

FromInt(n) == <<n % Limb, (n \div Limb) % Limb, 0>>

\* The count fits the checker's integers.
Fits(n) == n[3] = 0 /\ n[2] < 32768

Val(n) == n[1] + Limb * n[2]

\* n - 1 for n > 0
Dec(n) ==
  IF n[1] > 0 THEN <<n[1] - 1, n[2], n[3]>>
  ELSE IF n[2] > 0 THEN <<Limb - 1, n[2] - 1, n[3]>>
  ELSE <<Limb - 1, Limb - 1, n[3] - 1>>

\* a & b on 16-bit digits
RECURSIVE BitAnd(_, _)
BitAnd(a, b) ==
  IF a = 0 \/ b = 0 THEN 0
  ELSE (a % 2) * (b % 2) + 2 * BitAnd(a \div 2, b \div 2)

\* isPowerOf2: n > 0 && (n & (n - 1)) === 0, the & taken on ToInt32 of both
\* operands, that is on the two low digits.
isPowerOf2(n) ==
  /\ n # <<0, 0, 0>>
  /\ BitAnd(n[1], Dec(n)[1]) = 0
  /\ BitAnd(n[2], Dec(n)[2]) = 0

\* Math.round(Math.log2(count)) for a whole count >= 1: the k with
\* 2^(k - 1/2) <= count < 2^(k + 1/2), compared on the squares.
RoundLog2(count) ==
  CHOOSE k \in 0..12 :
    /\ Pow2(2 * k) <= 2 * count * count
    /\ count * count < 2 * Pow2(2 * k)

\* setParticleCount
setParticleCount(g, count) ==
  [g EXCEPT !.particleCount = FromInt(Pow2(RoundLog2(count)))]

getDispatchCountFloor(g) ==
  Val(g.particleCount) \div g.workgroupSize

\* getDispatchCount: Math.ceil(particleCount / workgroupSize)
getDispatchCount(g) ==
  LET p == Val(g.particleCount)
      w == g.workgroupSize
  IN IF p % w = 0 THEN p \div w ELSE (p \div w) + 1

\* validate
validate(g) ==
  IF ~isPowerOf2(g.particleCount) THEN FALSE
  ELSE IF g.workgroupSize > 256 THEN FALSE
  ELSE TRUE

\* Counts assigned to the particleCount field directly, as the unit tests
\* do: 100, 1024, 2^31, 2^32 and 3 * 2^32.
DirectCounts ==
  {FromInt(100), FromInt(1024), <<0, 32768, 0>>, <<0, 0, 1>>, <<0, 0, 3>>}

\* Values assigned to the workgroupSize field.
WorkgroupSizes == {48, 64, 256, 512}

----------------------------------------------------------------------------
\* The compute demo's particle arrays and its physics loop.  Array elements,
\* gravity and bounds are kept in units of 1/Scale, so that -0.001 and
\* repeated multiplication by -0.8 stay exact; simSpeed is a parsed control
\* value, in hundredths.  The rounding of a Float32Array store is left out.

Scale == 625000

MaxParticles == 2

MaxSteps == 3

\* a + b
Add(a, b) == IF IsNaN(a) \/ IsNaN(b) THEN NaN ELSE Num(a.v + b.v)

\* x * simSpeed, x in units of 1/Scale and simSpeed in hundredths
Mul(x, s) == IF IsNaN(x) \/ IsNaN(s) THEN NaN ELSE Num((x.v * s.v) \div 100)

\* -x
Neg(x) == IF IsNaN(x) THEN NaN ELSE Num(-x.v)

\* Math.abs(x)
MathAbs(x) == IF IsNaN(x) THEN NaN ELSE Num(IF x.v < 0 THEN -x.v ELSE x.v)

\* a > b, which is false when either is NaN
Gt(a, b) == a.t = "number" /\ b.t = "number" /\ a.v > b.v

\* a < b, which is false when either is NaN
Lt(a, b) == a.t = "number" /\ b.t = "number" /\ a.v < b.v

\* Math.sign(x) * bounds
SignTimes(x, bounds) ==
  IF IsNaN(x) \/ IsNaN(bounds) THEN NaN
  ELSE IF x.v > 0 THEN bounds
  ELSE IF x.v < 0 THEN Neg(bounds)
  ELSE Num(0)

\* vel[i] *= -1, a bounce that loses no speed
DampElastic(v) == Neg(v)

\* vel[i] *= -0.8
Damp(v) == IF IsNaN(v) THEN NaN ELSE Num((-4 * v.v) \div 5)

\* The x and the z component of one particle: advance, then bounce when
\* Math.abs(pos) > bounds.
AxisXZ(p, v, dtScale, bounds) ==
  LET p1 == Add(p, Mul(v, dtScale))
  IN  IF Gt(MathAbs(p1), bounds)
      THEN [pos |-> SignTimes(p1, bounds), vel |-> Damp(v)]
      ELSE [pos |-> p1, vel |-> v]

\* The y component of one particle: gravity, advance, then the test against
\* -bounds followed by the test against bounds.
AxisY(p, v, dtScale, gravity, bounds) ==
  LET v1 == Add(v, Mul(gravity, dtScale))
      p1 == Add(p, Mul(v1, dtScale))
      lo == IF Lt(p1, Neg(bounds))
            THEN [pos |-> Neg(bounds), vel |-> Damp(v1)]
            ELSE [pos |-> p1, vel |-> v1]
  IN  IF Gt(lo.pos, bounds)
      THEN [pos |-> bounds, vel |-> Damp(lo.vel)]
      ELSE lo

\* One pass of the physics loop over the arrays, with the loop's simSpeed,
\* gravity and bounds as parameters.
step(pos, vel, dtScale, gravity, bounds) ==
  LET axis(i) == IF i % 3 = 2
                 THEN AxisY(pos[i], vel[i], dtScale, gravity, bounds)
                 ELSE AxisXZ(pos[i], vel[i], dtScale, bounds)
  IN  [pos |-> [i \in 1..Len(pos) |-> axis(i).pos],
       vel |-> [i \in 1..Len(vel) |-> axis(i).vel]]

\* gravity = simType === 'particles' ? -0.001 : 0
Gravity(type) == IF type = "particles" THEN Num(-625) ELSE Num(0)

\* const bounds = 15
Bounds == Num(15 * Scale)

\* Particles as initParticles can draw them: positions within (-15, 15),
\* velocities within (-0.05, 0.05); some next to a wall and moving towards it.
ParticleSeeds ==
  { [pos |-> <<9362500, 0, -9362500>>, vel |-> <<25000, 0, -25000>>],
    [pos |-> <<0, -9362500, 0>>,       vel |-> <<0, -25000, 0>>],
    [pos |-> <<0, 9362500, 0>>,        vel |-> <<0, 25000, 0>>],
    [pos |-> <<-9343750, 3125000, 9343750>>, vel |-> <<-25000, 12500, 25000>>],
    [pos |-> <<0, 0, 0>>,              vel |-> <<12500, 0, -12500>>] }

\* The array holding one field of the seeds, three elements per particle.
Flatten(seeds, field) ==
  [i \in 1..(3 * Len(seeds)) |-> Num(seeds[((i - 1) \div 3) + 1][field][((i - 1) % 3) + 1])]

\* one element per particle instead of three
ColorsPerParticle(n) == [i \in 1..n |-> "r"]

\* The color array initParticles and the compute-count listener fill: the
\* r, g and b of one color per particle.
ColorsOf(n) == [i \in 1..(3 * n) |-> <<"r", "g", "b">>[((i - 1) % 3) + 1]]

\* Values of the compute-count slider: whole counts and a fractional one.
CountStrings == {"0.5", "1", "2", "3"}

\* The length of new Float32Array(particleCount * 3): 0 for NaN, the whole
\* part otherwise; a negative length throws a RangeError ("throws").
Float32ArrayLength(count) ==
  IF IsNaN(count) THEN 0
  ELSE IF 3 * count.v <= -100 THEN -1
  ELSE IF count.v < 0 THEN 0
  ELSE (3 * count.v) \div 100

\* How many Points objects the compute-count listener may make.
MaxMade == 2

\* Values of the sim-speed slider and of the compute-type select.
SpeedStrings == {"", "1", "2", "5"}

SimTypes == {"particles", "fluid"}

----------------------------------------------------------------------------
\* The 3D page (part_003): tabs and demo initialisers.
\*   inits     : calls of the demo's initialiser
\*   renderers : WebGLRenderers made on the demo's canvas
\*   loops     : animate closures with a pending animation-frame callback
\*   renders   : render calls made by those closures

MaxRenders == 4

\* The data-tab values of the tab buttons.
Tabs == {"particles", "materials", "postfx", "compute"}

Demos == Tabs \cup {"hero"}

NoDemo == [inits |-> 0, renderers |-> 0, loops |-> 0, renders |-> 0]

\* initHeroBackground, initParticlesDemo, initMaterialsDemo, initPostFXDemo
\* and initComputeDemo: return when the canvas is missing; otherwise make a
\* renderer and call animate(), which renders and requests the next frame.
initDemo(ds, name, present) ==
  IF name \notin present
  THEN [ds EXCEPT ![name].inits = @ + 1]
  ELSE [ds EXCEPT ![name] = [inits |-> @.inits + 1, renderers |-> @.renderers + 1,
                             loops |-> @.loops + 1, renders |-> @.renders + 1]]

\* initDemoByTab: nothing for a tab in initializedDemos; otherwise the tab's
\* initialiser, then initializedDemos.add(tabId).
initDemoByTab(done, ds, tabId, present) ==
  IF tabId \in done
  THEN [done |-> done, demos |-> ds]
  ELSE [done |-> done \cup {tabId}, demos |-> initDemo(ds, tabId, present)]

\* init: initHeroBackground() and initParticlesDemo(), called directly.
initPage(ds, present) == initDemo(initDemo(ds, "hero", present), "particles", present)

\* One host frame: every pending animate closure renders and requests the
\* next frame.
animateAll(ds) == [d \in DOMAIN ds |-> [ds[d] EXCEPT !.renders = @ + ds[d].loops]]

----------------------------------------------------------------------------
\* Page wiring

\* The compute demo before initComputeDemo has run.
NoCompute ==
  /\ colors = <<>>
  /\ particleCount = Num(0)
  /\ scene = [objects |-> {}, made |-> 0]

\* No FluidRenderer and no ThreeVisualization has been constructed.
NoSurface ==
  /\ fr = Blank @@ Unassigned
  /\ clock = 0
  /\ three = [ThreeVisualization EXCEPT !.isAnimating = FALSE, !.animationId = 0,
                                        !.callbacks = <<>>, !.resizeListener = FALSE,
                                        !.mounted = FALSE]
  /\ watch = [arg |-> [none |-> 0], prev |-> "none", startedAt |-> 0, stoppedAt |-> 0, first |-> FALSE]

\* The 3D page before its init has run.
NoTabs ==
  /\ ready = FALSE
  /\ initializedDemos = {}
  /\ demos = [d \in Demos |-> NoDemo]
  /\ activeTab = "particles"
  /\ canvases = Demos

\* The demos that are not on the page.
OtherInit ==
  /\ NoCompute
  /\ NoSurface
  /\ NoTabs

\* The parameter objects as constructed with their defaults; the particle
\* arrays before the compute demo is initialised.
BusInit ==
  /\ state = defaults
  /\ inputs = [viscosity |-> "0.5", distortion |-> "0.3", speed |-> "1", colorShift |-> "0.5"]
  /\ pbr = [metalness |-> Num(50), roughness |-> Num(50)]
  /\ material = [metalness |-> Num(50), roughness |-> Num(50)]
  /\ gpu = [workgroupSize |-> 64, particleCount |-> <<0, 1, 0>>]
  /\ positions = <<>>
  /\ velocities = <<>>
  /\ stepped = <<>>
  /\ simSpeed = Num(100)
  /\ simType = "particles"
  /\ OtherInit

Init ==
  /\ loaded = FALSE
  /\ heroRenderer = "null"
  /\ exampleRenderers = <<>>
  /\ surf = [s \in Surfaces |-> Blank]
  /\ visible = [s \in Surfaces |-> "unknown"]
  /\ lastEvent = <<"none", "none", "none">>
  /\ calls = {}
  /\ BusInit

\* Every renderer is named by the canvas it was constructed on.
CanvasOf(renderer) == renderer

FindFirst(canvas) ==
  IF exampleRenderers = <<>> THEN "none" ELSE exampleRenderers[1]

\* exampleRenderers.find(r => r.canvas === canvas)
Find(canvas) ==
  LET hits == {i \in DOMAIN exampleRenderers : CanvasOf(exampleRenderers[i]) = canvas}
  IN IF hits = {}
     THEN "none"
     ELSE exampleRenderers[CHOOSE i \in hits : \A j \in hits : i <= j]

ObservedWithHero ==
  IF exampleRenderers = <<>>
  THEN {}
  ELSE {CanvasOf(exampleRenderers[i]) : i \in DOMAIN exampleRenderers} \cup {"hero"}

\* The canvases observer.observe was called on.
Observed ==
  {CanvasOf(exampleRenderers[i]) : i \in DOMAIN exampleRenderers} \ {"hero"}

\* The pool has a handle for every requestAnimationFrame of one host frame.
EnoughHandles(r) == 2 * Len(r.callbacks) + 1 <= MaxHandle

\* DOMContentLoaded handler: WebGL probe, initHeroCanvas, initExamples,
\* initIntersectionObserver.
DOMContentLoaded ==
  /\ ~loaded
  /\ loaded' = TRUE
  /\ lastEvent' = <<"DOMContentLoaded", "document", "none">>
  /\ UNCHANGED visible
  /\ UNCHANGED busVars
  /\ \/ \* the probe canvas gets no context: alert and return
        /\ UNCHANGED <<heroRenderer, exampleRenderers, surf>>
        /\ calls' = {}
     \/ \E o \in [Surfaces -> Outcomes] :
        /\ heroRenderer' = "hero"
        /\ exampleRenderers' = ExampleOrder
        /\ surf' = [s \in Surfaces |->
                      IF s = "btn" THEN constructor(o[s], Options[s])
                      ELSE start(constructor(o[s], Options[s]))]
        /\ calls' = {<<"start", s, constructor(o[s], Options[s]).isRunning>> :
                        s \in Surfaces \ {"btn"}}

\* The host runs the pending animation-frame callbacks of all surfaces.
HostFrame ==
  /\ \E s \in Surfaces : surf[s].callbacks # <<>>
  /\ \A s \in Surfaces : EnoughHandles(surf[s])
  /\ surf' = [s \in Surfaces |-> FrameOf(surf[s], FALSE)]
  /\ lastEvent' = <<"frame", "window", "none">>
  /\ calls' = {}
  /\ UNCHANGED <<loaded, heroRenderer, exampleRenderers, visible>>
  /\ UNCHANGED busVars

\* mouseenter on the liquid button: btnRenderer.start()
MouseEnter ==
  /\ Len(exampleRenderers) >= 1
  /\ Len(surf["btn"].callbacks) + 1 < MaxHandle
  /\ surf' = [s \in Surfaces |->
                IF s = "btn" THEN start(NoFrameCount(surf[s])) ELSE NoFrameCount(surf[s])]
  /\ lastEvent' = <<"mouseenter", "btn", "none">>
  /\ calls' = {<<"start", "btn", surf["btn"].isRunning>>}
  /\ UNCHANGED <<loaded, heroRenderer, exampleRenderers, visible>>
  /\ UNCHANGED busVars

\* mouseleave on the liquid button: btnRenderer.stop()
MouseLeave ==
  /\ Len(exampleRenderers) >= 1
  /\ surf' = [s \in Surfaces |->
                IF s = "btn" THEN stop(NoFrameCount(surf[s])) ELSE NoFrameCount(surf[s])]
  /\ lastEvent' = <<"mouseleave", "btn", "none">>
  /\ calls' = {<<"stop", "btn", surf["btn"].isRunning>>}
  /\ UNCHANGED <<loaded, heroRenderer, exampleRenderers, visible>>
  /\ UNCHANGED busVars

\* IntersectionObserver callback with one entry: the target crossed the
\* threshold, isIntersecting is the new side.
Intersection(canvas, isIntersecting) ==
  /\ canvas \in Observed
  /\ visible[canvas] # isIntersecting
  /\ visible' = [visible EXCEPT ![canvas] = isIntersecting]
  /\ lastEvent' = <<"intersection", canvas, isIntersecting>>
  /\ LET renderer == Find(canvas)
     IN IF renderer = "none"
        THEN /\ surf' = [s \in Surfaces |-> NoFrameCount(surf[s])]
             /\ calls' = {}
        ELSE /\ Len(surf[renderer].callbacks) + 1 < MaxHandle
             /\ surf' = [s \in Surfaces |->
                           IF s # renderer THEN NoFrameCount(surf[s])
                           ELSE IF isIntersecting = "true"
                                THEN start(NoFrameCount(surf[s]))
                                ELSE stop(NoFrameCount(surf[s]))]
             /\ calls' = {<<IF isIntersecting = "true" THEN "start" ELSE "stop",
                            renderer, surf[renderer].isRunning>>}
  /\ UNCHANGED <<loaded, heroRenderer, exampleRenderers>>
  /\ UNCHANGED busVars

\* The renderers cleanup destroys.
Mounted ==
  (IF heroRenderer = "null" THEN {} ELSE {heroRenderer}) \cup Range(exampleRenderers)

\* beforeunload handler: cleanup.  The page may stay (the navigation is
\* cancelled or is a download), so events keep arriving afterwards.
BeforeUnload ==
  /\ surf' = [s \in Surfaces |->
                IF s \in Mounted
                THEN [destroy(NoFrameCount(surf[s])) EXCEPT !.destroyed = TRUE]
                ELSE NoFrameCount(surf[s])]
  /\ lastEvent' = <<"beforeunload", "window", "none">>
  /\ calls' = {<<"destroy", s, surf[s].isRunning>> : s \in Mounted}
  /\ UNCHANGED <<loaded, heroRenderer, exampleRenderers, visible>>
  /\ UNCHANGED busVars

Next ==
  \/ DOMContentLoaded
  \/ HostFrame
  \/ MouseEnter
  \/ MouseLeave
  \/ \E canvas \in Surfaces, isIntersecting \in {"true", "false"} :
        Intersection(canvas, isIntersecting)
  \/ BeforeUnload

Spec == Init /\ [][Next]_vars

\* The renderers whose stop() is also invoked from inside their own frame
\* callback.  No caller in the page does that; the liquid button's renderer
\* is the one whose start and stop are both driven by user events.
InsideCallers == {"btn"}

\* A host frame during which, for the surfaces in stoppers, stop() of the
\* renderer is invoked while its frame callback is executing render.
HostFrameStopInside ==
  \E stoppers \in (SUBSET InsideCallers) \ {{}} :
    /\ \A s \in stoppers : surf[s].callbacks # <<>> /\ surf[s].isRunning = "true"
    /\ \A s \in Surfaces : EnoughHandles(surf[s])
    /\ surf' = [s \in Surfaces |-> FrameOf(surf[s], s \in stoppers)]
    /\ lastEvent' = <<"frame", "window", "stop inside">>
    /\ calls' = {<<"stop", s, "true">> : s \in stoppers}
    /\ UNCHANGED <<loaded, heroRenderer, exampleRenderers, visible>>
    /\ UNCHANGED busVars
  /\ UNCHANGED busVars

NextInCallback == Next \/ HostFrameStopInside

SpecInCallback == Init /\ [][NextInCallback]_vars

----------------------------------------------------------------------------
\* Glass controls (setupControls, resetToDefaults)

GlassFields == {"blur", "opacity", "saturation", "borderOpacity"}

\* input listener of one glass control: blur and saturation are read with
\* parseInt, the two opacities with parseFloat, and stored as read.
GlassInput(field, str) ==
  /\ state' = [state EXCEPT ![field] =
                 IF field \in {"blur", "saturation"} THEN parseInt(str) ELSE parseFloat(str)]
  /\ lastEvent' = <<"input", field, str>>
  /\ UNCHANGED <<inputs, pbr, material, gpu, positions, velocities, stepped, simSpeed, simType, otherVars>>
  /\ UNCHANGED pageVars

\* click on the reset button: Object.assign(state, defaults)
ResetClick ==
  /\ state' = [f \in GlassFields |-> defaults[f]]
  /\ lastEvent' = <<"click", "reset-btn", "none">>
  /\ UNCHANGED <<inputs, pbr, material, gpu, positions, velocities, stepped, simSpeed, simType, otherVars>>
  /\ UNCHANGED pageVars

NextGlass ==
  \/ \E field \in GlassFields, str \in ControlStrings : GlassInput(field, str)
  \/ ResetClick

SpecGlass == Init /\ [][NextGlass]_vars

----------------------------------------------------------------------------
\* Fluid controls (initControls)

\* The page after DOMContentLoaded with working example canvases; the hero
\* canvas' driver answers are open.
InitFluid ==
  /\ loaded = TRUE
  /\ heroRenderer = "hero"
  /\ exampleRenderers = ExampleOrder
  /\ \E o \in Outcomes :
       surf = [s \in Surfaces |->
                 IF s = "hero" THEN start(constructor(o, Options[s]))
                 ELSE IF s = "btn" THEN constructor(AllOk, Options[s])
                 ELSE start(constructor(AllOk, Options[s]))]
  /\ visible = [s \in Surfaces |-> "unknown"]
  /\ lastEvent = <<"DOMContentLoaded", "document", "none">>
  /\ calls = {}
  /\ BusInit

\* updateHeroRenderer: the four sliders are read with parseFloat and handed
\* to heroRenderer.updateParams.
updateHeroRenderer(values) ==
  IF heroRenderer = "null"
  THEN surf
  ELSE [surf EXCEPT ![heroRenderer] =
          updateParams(@, [k \in FluidFields |-> parseFloat(values[k])])]

\* input event on one fluid slider
FluidInput(field, str) ==
  /\ loaded
  /\ inputs' = [inputs EXCEPT ![field] = str]
  /\ surf' = updateHeroRenderer(inputs')
  /\ lastEvent' = <<"input", field, str>>
  /\ calls' = {<<"updateParams", "hero", surf["hero"].isRunning>>}
  /\ UNCHANGED <<loaded, heroRenderer, exampleRenderers, visible>>
  /\ UNCHANGED <<state, pbr, material, gpu, positions, velocities, stepped, simSpeed, simType, otherVars>>

presets ==
  [calm      |-> [viscosity |-> "0.3", distortion |-> "0.2", speed |-> "0.5", colorShift |-> "0.3"],
   energetic |-> [viscosity |-> "0.7", distortion |-> "0.5", speed |-> "2", colorShift |-> "0.7"],
   chaotic   |-> [viscosity |-> "1", distortion |-> "0.8", speed |-> "3", colorShift |-> "1"]]

\* click on a preset button: the sliders take the preset's values, then
\* updateHeroRenderer.
PresetClick(name) ==
  /\ loaded
  /\ inputs' = presets[name]
  /\ surf' = updateHeroRenderer(inputs')
  /\ lastEvent' = <<"click", "preset-btn", name>>
  /\ calls' = {<<"updateParams", "hero", surf["hero"].isRunning>>}
  /\ UNCHANGED <<loaded, heroRenderer, exampleRenderers, visible>>
  /\ UNCHANGED <<state, pbr, material, gpu, positions, velocities, stepped, simSpeed, simType, otherVars>>

NextFluid ==
  \/ \E field \in FluidFields, str \in ControlStrings : FluidInput(field, str)
  \/ \E name \in DOMAIN presets : PresetClick(name)

SpecFluid == InitFluid /\ [][NextFluid]_vars

----------------------------------------------------------------------------
\* GPUComputeParams calls

SetParticleCount(count) ==
  /\ gpu' = setParticleCount(gpu, count)
  /\ lastEvent' = <<"setParticleCount", "gpu", count>>
  /\ UNCHANGED <<state, inputs, pbr, material, positions, velocities, stepped, simSpeed, simType, otherVars>>
  /\ UNCHANGED pageVars

\* params.particleCount = n
AssignParticleCount(n) ==
  /\ gpu' = [gpu EXCEPT !.particleCount = n]
  /\ lastEvent' = <<"particleCount =", "gpu", 0>>
  /\ UNCHANGED <<state, inputs, pbr, material, positions, velocities, stepped, simSpeed, simType, otherVars>>
  /\ UNCHANGED pageVars

\* params.workgroupSize = w
AssignWorkgroupSize(w) ==
  /\ gpu' = [gpu EXCEPT !.workgroupSize = w]
  /\ lastEvent' = <<"workgroupSize =", "gpu", 0>>
  /\ UNCHANGED <<state, inputs, pbr, material, positions, velocities, stepped, simSpeed, simType, otherVars>>
  /\ UNCHANGED pageVars

NextCompute ==
  \/ \E count \in 1..MaxCount : SetParticleCount(count)
  \/ \E n \in DirectCounts : AssignParticleCount(n)
  \/ \E w \in WorkgroupSizes : AssignWorkgroupSize(w)

SpecCompute == Init /\ [][NextCompute]_vars

----------------------------------------------------------------------------
\* Material configuration calls and the materials demo's sliders

\* A PBRMaterialConfig constructed with any options; all else as in Init.
InitMaterial ==
  /\ loaded = FALSE
  /\ heroRenderer = "null"
  /\ exampleRenderers = <<>>
  /\ surf = [s \in Surfaces |-> Blank]
  /\ visible = [s \in Surfaces |-> "unknown"]
  /\ lastEvent = <<"none", "none", "none">>
  /\ calls = {}
  /\ state = defaults
  /\ inputs = [viscosity |-> "0.5", distortion |-> "0.3", speed |-> "1", colorShift |-> "0.5"]
  /\ \E mt \in NumericArgs \cup {Undefined}, rg \in NumericArgs \cup {Undefined} :
       pbr = PBRMaterialConfig([metalness |-> mt, roughness |-> rg])
  /\ material = [metalness |-> Num(50), roughness |-> Num(50)]
  /\ gpu = [workgroupSize |-> 64, particleCount |-> <<0, 1, 0>>]
  /\ positions = <<>>
  /\ velocities = <<>>
  /\ stepped = <<>>
  /\ simSpeed = Num(100)
  /\ simType = "particles"
  /\ OtherInit

SetMetalness(value) ==
  /\ pbr' = setMetalness(pbr, value)
  /\ lastEvent' = <<"setMetalness", "pbr", value.t>>
  /\ UNCHANGED <<state, inputs, material, gpu, positions, velocities, stepped, simSpeed, simType, otherVars>>
  /\ UNCHANGED pageVars

SetRoughness(value) ==
  /\ pbr' = setRoughness(pbr, value)
  /\ lastEvent' = <<"setRoughness", "pbr", value.t>>
  /\ UNCHANGED <<state, inputs, material, gpu, positions, velocities, stepped, simSpeed, simType, otherVars>>
  /\ UNCHANGED pageVars

\* input listener of the material-roughness / material-metalness slider:
\* material[field] = parseFloat(e.target.value)
MaterialInput(field, str) ==
  /\ material' = [material EXCEPT ![field] = parseFloat(str)]
  /\ lastEvent' = <<"input", field, str>>
  /\ UNCHANGED <<state, inputs, pbr, gpu, positions, velocities, stepped, simSpeed, simType, otherVars>>
  /\ UNCHANGED pageVars

NextMaterial ==
  \/ \E value \in NumericArgs : SetMetalness(value)
  \/ \E value \in NumericArgs : SetRoughness(value)
  \/ \E field \in {"metalness", "roughness"}, str \in ControlStrings : MaterialInput(field, str)

SpecMaterial == InitMaterial /\ [][NextMaterial]_vars

----------------------------------------------------------------------------
\* The compute demo: its controls and its frame loop

\* initComputeDemo has run: the arrays are filled by initParticles and the
\* first call of animate has made one pass of the physics loop.
InitParticles ==
  /\ loaded = FALSE
  /\ heroRenderer = "null"
  /\ exampleRenderers = <<>>
  /\ surf = [s \in Surfaces |-> Blank]
  /\ visible = [s \in Surfaces |-> "unknown"]
  /\ lastEvent = <<"animate", "compute", "none">>
  /\ calls = {}
  /\ state = defaults
  /\ inputs = [viscosity |-> "0.5", distortion |-> "0.3", speed |-> "1", colorShift |-> "0.5"]
  /\ pbr = [metalness |-> Num(50), roughness |-> Num(50)]
  /\ material = [metalness |-> Num(50), roughness |-> Num(50)]
  /\ gpu = [workgroupSize |-> 64, particleCount |-> <<0, 1, 0>>]
  /\ simSpeed = Num(100)
  /\ simType = "particles"
  /\ \E n \in 1..MaxParticles : \E seeds \in [1..n -> ParticleSeeds] :
       LET pos == Flatten(seeds, "pos")
           vel == Flatten(seeds, "vel")
           after == step(pos, vel, Num(100), Gravity("particles"), Bounds)
       IN  /\ stepped = [n |-> 1, pos |-> pos, vel |-> vel, dtScale |-> Num(100),
                         gravity |-> Gravity("particles"), bounds |-> Bounds]
           /\ positions = after.pos
           /\ velocities = after.vel
           /\ colors = ColorsOf(n)
           /\ particleCount = Num(100 * n)
  /\ scene = [objects |-> {0}, made |-> 0]
  /\ NoSurface
  /\ NoTabs

\* input listener of the sim-speed slider
SimSpeedInput(str) ==
  /\ simSpeed' = parseFloat(str)
  /\ lastEvent' = <<"input", "sim-speed", str>>
  /\ UNCHANGED <<state, inputs, pbr, material, gpu, positions, velocities, stepped, simType, otherVars>>
  /\ UNCHANGED pageVars

\* change listener of the compute-type select
SimTypeChange(value) ==
  /\ simType' = value
  /\ lastEvent' = <<"change", "compute-type", value>>
  /\ UNCHANGED <<state, inputs, pbr, material, gpu, positions, velocities, stepped, simSpeed, otherVars>>
  /\ UNCHANGED pageVars

\* One frame of animate: the physics loop over the arrays in place.
Animate ==
  /\ stepped.n < MaxSteps
  /\ LET after == step(positions, velocities, simSpeed, Gravity(simType), Bounds)
     IN  /\ positions' = after.pos
         /\ velocities' = after.vel
  /\ stepped' = [n |-> stepped.n + 1, pos |-> positions, vel |-> velocities,
                 dtScale |-> simSpeed, gravity |-> Gravity(simType), bounds |-> Bounds]
  /\ lastEvent' = <<"animate", "compute", "none">>
  /\ UNCHANGED <<state, inputs, pbr, material, gpu, simSpeed, simType, otherVars>>
  /\ UNCHANGED pageVars

\* input listener of the compute-count slider: particleCount is parsed, the
\* particles object made by initComputeDemo (object 0) is removed from the
\* scene, three new arrays are allocated and filled, set on the geometry,
\* and a new Points object is added to the scene.  When an allocation throws,
\* the listener ends there.
CountInput(str) ==
  LET count   == parseInt(str)
      len     == Float32ArrayLength(count)
      removed == [scene EXCEPT !.objects = @ \ {0}]
  IN  /\ scene.made < MaxMade
      /\ len <= 3 * MaxParticles
      /\ particleCount' = count
      /\ IF len < 0
         THEN /\ scene' = removed
              /\ UNCHANGED <<positions, velocities, colors>>
         ELSE /\ \E seeds \in [1..(len \div 3) -> ParticleSeeds] :
                   /\ positions' = Flatten(seeds, "pos")
                   /\ velocities' = Flatten(seeds, "vel")
              /\ colors' = ColorsOf(len \div 3)
              /\ scene' = [objects |-> removed.objects \cup {scene.made + 1},
                           made |-> scene.made + 1]
      /\ lastEvent' = <<"input", "compute-count", str>>
      /\ UNCHANGED <<state, inputs, pbr, material, gpu, stepped, simSpeed, simType, surfaceVars, tabVars>>
      /\ UNCHANGED pageVars

NextParticles ==
  \/ \E str \in SpeedStrings : SimSpeedInput(str)
  \/ \E value \in SimTypes : SimTypeChange(value)
  \/ Animate

SpecParticles == InitParticles /\ [][NextParticles]_vars

\* The compute demo under changes of the particle count.
NextScene ==
  \/ \E str \in CountStrings : CountInput(str)
  \/ Animate

SpecScene == InitParticles /\ [][NextScene]_vars

----------------------------------------------------------------------------
\* One FluidRenderer and one ThreeVisualization under the calls of their
\* owners, the host's frames and the pointer.

\* The surfaces a renderer is constructed for here: with and without mouse
\* tracking.
Kinds == {"hero", "card"}

\* Arguments of updateParams.
Partials ==
  { [speed |-> Num(200)],
    [viscosity |-> Num(70), speed |-> Num(50)] }

InitSurface ==
  /\ loaded = FALSE
  /\ heroRenderer = "null"
  /\ exampleRenderers = <<>>
  /\ surf = [s \in Surfaces |-> Blank]
  /\ visible = [s \in Surfaces |-> "unknown"]
  /\ lastEvent = <<"none", "none", "none">>
  /\ calls = {}
  /\ state = defaults
  /\ inputs = [viscosity |-> "0.5", distortion |-> "0.3", speed |-> "1", colorShift |-> "0.5"]
  /\ pbr = [metalness |-> Num(50), roughness |-> Num(50)]
  /\ material = [metalness |-> Num(50), roughness |-> Num(50)]
  /\ gpu = [workgroupSize |-> 64, particleCount |-> <<0, 1, 0>>]
  /\ positions = <<>>
  /\ velocities = <<>>
  /\ stepped = <<>>
  /\ simSpeed = Num(100)
  /\ simType = "particles"
  /\ NoCompute
  /\ NoTabs
  /\ \E o \in Outcomes, kind \in Kinds, rect \in InitRects, dpr \in PixelRatios :
       fr = constructorAt(o, Options[kind], rect, dpr)
  /\ clock = 0
  /\ three = ThreeVisualization
  /\ watch = [arg |-> [none |-> 0], prev |-> "none", startedAt |-> 0, stoppedAt |-> 0, first |-> FALSE]

\* What every call on the renderer records.
Watched(event, arg) ==
  /\ lastEvent' = <<event, "fr", "none">>
  /\ watch' = [watch EXCEPT !.arg = arg, !.prev = lastEvent[1]]

\* Time passes.
Tick ==
  /\ clock < MaxClock
  /\ clock' = clock + 1
  /\ lastEvent' = <<"tick", "host", "none">>
  /\ watch' = [watch EXCEPT !.arg = [none |-> 0], !.prev = lastEvent[1]]
  /\ UNCHANGED <<fr, three, computeVars, tabVars>>
  /\ UNCHANGED <<state, inputs, pbr, material, gpu, positions, velocities, stepped, simSpeed, simType>>
  /\ UNCHANGED pageVars

SurfaceStart ==
  /\ fr' = startAt(Fresh(fr), clock)
  /\ lastEvent' = <<"start", "fr", "none">>
  /\ watch' = [watch EXCEPT !.arg = [none |-> 0], !.prev = lastEvent[1],
                            !.startedAt = IF fr.isRunning = "true" THEN @ ELSE clock,
                            !.first = IF fr.isRunning = "true" THEN @ ELSE TRUE]
  /\ UNCHANGED <<clock, three, computeVars, tabVars>>
  /\ UNCHANGED <<state, inputs, pbr, material, gpu, positions, velocities, stepped, simSpeed, simType>>
  /\ UNCHANGED pageVars

SurfaceStop ==
  /\ fr' = stop(Fresh(fr))
  /\ lastEvent' = <<"stop", "fr", "none">>
  /\ watch' = [watch EXCEPT !.arg = [none |-> 0], !.prev = lastEvent[1],
                            !.stoppedAt = IF fr.isRunning = "true" THEN clock ELSE @]
  /\ UNCHANGED <<clock, three, computeVars, tabVars>>
  /\ UNCHANGED <<state, inputs, pbr, material, gpu, positions, velocities, stepped, simSpeed, simType>>
  /\ UNCHANGED pageVars

SurfaceDestroy ==
  /\ fr' = [destroy(Fresh(fr)) EXCEPT !.destroyed = TRUE]
  /\ Watched("destroy", [none |-> 0])
  /\ UNCHANGED <<clock, three, computeVars, tabVars>>
  /\ UNCHANGED <<state, inputs, pbr, material, gpu, positions, velocities, stepped, simSpeed, simType>>
  /\ UNCHANGED pageVars

SurfaceUpdateParams(partial) ==
  /\ fr' = updateParams(Fresh(fr), partial)
  /\ Watched("updateParams", partial)
  /\ UNCHANGED <<clock, three, computeVars, tabVars>>
  /\ UNCHANGED <<state, inputs, pbr, material, gpu, positions, velocities, stepped, simSpeed, simType>>
  /\ UNCHANGED pageVars

\* A host frame of the renderer's page: its pending callbacks run with the
\* frame's timestamp.
SurfaceFrame ==
  /\ fr' = FrameAt(fr, clock)
  /\ lastEvent' = <<"frame", "fr", "none">>
  /\ watch' = [watch EXCEPT !.arg = [none |-> 0], !.prev = lastEvent[1],
                            !.first = IF fr'.deltas # <<>> THEN FALSE ELSE @]
  /\ UNCHANGED <<clock, three, computeVars, tabVars>>
  /\ UNCHANGED <<state, inputs, pbr, material, gpu, positions, velocities, stepped, simSpeed, simType>>
  /\ UNCHANGED pageVars

\* mousemove over the canvas; only a canvas with the listener has a handler.
SurfaceMouseMove(clientX, clientY) ==
  /\ "mousemove" \in fr.listeners
  /\ fr' = mousemove(Fresh(fr), clientX, clientY)
  /\ Watched("mousemove", [clientX |-> clientX, clientY |-> clientY])
  /\ UNCHANGED <<clock, three, computeVars, tabVars>>
  /\ UNCHANGED <<state, inputs, pbr, material, gpu, positions, velocities, stepped, simSpeed, simType>>
  /\ UNCHANGED pageVars

SurfaceMouseLeave ==
  /\ "mouseleave" \in fr.listeners
  /\ fr' = mouseleave(Fresh(fr))
  /\ Watched("mouseleave", [none |-> 0])
  /\ UNCHANGED <<clock, three, computeVars, tabVars>>
  /\ UNCHANGED <<state, inputs, pbr, material, gpu, positions, velocities, stepped, simSpeed, simType>>
  /\ UNCHANGED pageVars

ThreeDispose ==
  /\ three' = dispose(three)
  /\ lastEvent' = <<"dispose", "three", "none">>
  /\ watch' = [watch EXCEPT !.arg = [none |-> 0], !.prev = lastEvent[1]]
  /\ UNCHANGED <<fr, clock, computeVars, tabVars>>
  /\ UNCHANGED <<state, inputs, pbr, material, gpu, positions, velocities, stepped, simSpeed, simType>>
  /\ UNCHANGED pageVars

\* A host frame of the visualization's page: the pending callback runs
\* animate.
ThreeFrame ==
  /\ three.callbacks # <<>>
  /\ three' = animate([three EXCEPT !.callbacks = <<>>, !.threw = "none"])
  /\ lastEvent' = <<"frame", "three", "none">>
  /\ watch' = [watch EXCEPT !.arg = [none |-> 0], !.prev = lastEvent[1]]
  /\ UNCHANGED <<fr, clock, computeVars, tabVars>>
  /\ UNCHANGED <<state, inputs, pbr, material, gpu, positions, velocities, stepped, simSpeed, simType>>
  /\ UNCHANGED pageVars

NextSurface ==
  \/ Tick
  \/ SurfaceStart
  \/ SurfaceStop
  \/ SurfaceDestroy
  \/ \E partial \in Partials : SurfaceUpdateParams(partial)
  \/ SurfaceFrame

SpecSurface == InitSurface /\ [][NextSurface]_vars

\* The renderer under the pointer and the teardown of both objects.
NextPointer ==
  \/ \E clientX \in Rect.left..(Rect.left + Rect.width - 1),
        clientY \in Rect.top..(Rect.top + Rect.height - 1) :
       SurfaceMouseMove(clientX, clientY)
  \/ SurfaceMouseLeave
  \/ SurfaceStart
  \/ SurfaceStop
  \/ SurfaceDestroy
  \/ ThreeFrame
  \/ ThreeDispose

SpecPointer == InitSurface /\ [][NextPointer]_vars

----------------------------------------------------------------------------
\* The 3D page.

\* The documents the page script may run in: with every canvas, or with one
\* of the demo canvases missing.
CanvasSets == {Demos} \cup {Demos \ {d} : d \in Demos}

InitTabs ==
  /\ loaded = FALSE
  /\ heroRenderer = "null"
  /\ exampleRenderers = <<>>
  /\ surf = [s \in Surfaces |-> Blank]
  /\ visible = [s \in Surfaces |-> "unknown"]
  /\ lastEvent = <<"none", "none", "none">>
  /\ calls = {}
  /\ state = defaults
  /\ inputs = [viscosity |-> "0.5", distortion |-> "0.3", speed |-> "1", colorShift |-> "0.5"]
  /\ pbr = [metalness |-> Num(50), roughness |-> Num(50)]
  /\ material = [metalness |-> Num(50), roughness |-> Num(50)]
  /\ gpu = [workgroupSize |-> 64, particleCount |-> <<0, 1, 0>>]
  /\ positions = <<>>
  /\ velocities = <<>>
  /\ stepped = <<>>
  /\ simSpeed = Num(100)
  /\ simType = "particles"
  /\ NoCompute
  /\ NoSurface
  /\ ready = FALSE
  /\ initializedDemos = {}
  /\ demos = [d \in Demos |-> NoDemo]
  /\ activeTab = "particles"
  /\ canvases \in CanvasSets

TabUnchanged ==
  /\ UNCHANGED <<computeVars, surfaceVars, canvases>>
  /\ UNCHANGED <<state, inputs, pbr, material, gpu, positions, velocities, stepped, simSpeed, simType>>
  /\ UNCHANGED pageVars

\* DOMContentLoaded (or the script's own call): init().
PageInit ==
  /\ ~ready
  /\ ready' = TRUE
  /\ demos' = initPage(demos, canvases)
  /\ lastEvent' = <<"init", "document", "none">>
  /\ UNCHANGED <<initializedDemos, activeTab>>
  /\ TabUnchanged

\* click on a tab button; the listener exists once initTabs has run.
TabClick(tabId) ==
  /\ ready
  /\ activeTab' = tabId
  /\ LET r == initDemoByTab(initializedDemos, demos, tabId, canvases)
     IN  /\ initializedDemos' = r.done
         /\ demos' = r.demos
  /\ lastEvent' = <<"click", tabId, "none">>
  /\ UNCHANGED ready
  /\ TabUnchanged

\* A host animation frame of the 3D page.
TabFrame ==
  /\ \A d \in Demos : demos[d].renders + demos[d].loops <= MaxRenders
  /\ \E d \in Demos : demos[d].loops > 0
  /\ demos' = animateAll(demos)
  /\ lastEvent' = <<"frame", "page", "none">>
  /\ UNCHANGED <<ready, initializedDemos, activeTab>>
  /\ TabUnchanged

NextTabs ==
  \/ PageInit
  \/ \E tabId \in Tabs : TabClick(tabId)
  \/ TabFrame

SpecTabs == InitTabs /\ [][NextTabs]_vars

----------------------------------------------------------------------------
\* Properties

\* The methods a handler invoked, without the isRunning they found.
Invoked == {<<c[1], c[2]>> : c \in calls}

\* C1: while a renderer is running it has exactly one pending frame
\* callback, also after start was called on a running renderer, and a host
\* frame invokes render at most once per surface and exactly once for a
\* running surface.
C1_OneLoopWhileRunning ==
  \A s \in Surfaces :
    /\ surf[s].isRunning = "true" => Len(surf[s].callbacks) = 1
    /\ surf[s].renders <= 1
    /\ (lastEvent[1] = "frame" /\ surf[s].isRunning = "true") => surf[s].renders = 1

\* start was called on a renderer that was already running.
C1_Witness ==
  \E s \in Surfaces :
    /\ <<"start", s, "true">> \in calls
    /\ surf[s].isRunning = "true"
    /\ Len(surf[s].callbacks) = 1

\* C2: whatever the order of start, stop and frame callbacks, stop invoked
\* from inside the surface's own frame callback included, a surface never
\* has more than one pending self-rescheduling loop.
C2_AtMostOneLoop ==
  \A s \in Surfaces : Len(surf[s].callbacks) <= 1

\* C3: a renderer that is not running has no pending callback and no stored
\* handle, and a step taken from a state in which it is not running invokes
\* no render of it; a pending callback exists only while running holds.
C3_NoFrameWhileStopped ==
  /\ [](\A s \in Surfaces :
          surf[s].isRunning # "true" =>
            (surf[s].callbacks = <<>> /\ surf[s].animationFrame = 0))
  /\ [][\A s \in Surfaces :
          surf[s].isRunning # "true" => surf'[s].renders = 0]_vars

\* stop was called on a running renderer.
C3_Witness ==
  \E s \in Surfaces :
    /\ <<"stop", s, "true">> \in calls
    /\ surf[s].isRunning = "false"
    /\ surf[s].callbacks = <<>>

\* C4: a destroyed renderer never runs again and none of its frames is
\* rendered.
C4_DisposedIsTerminal ==
  \A s \in Surfaces :
    surf[s].destroyed => (surf[s].isRunning # "true" /\ surf[s].renders = 0)

\* C5: after destroy no object created for the renderer is alive on the
\* canvas' context.
C5_NoResidualHandles ==
  \A s \in Surfaces : surf[s].destroyed => surf[s].objects = {}

\* C6: a renderer whose construction failed (no context, a stage that does
\* not compile, a program that does not link) is never running and has no
\* frame callback installed.
C6_FailedSurfaceNeverStarts ==
  \A s \in Surfaces :
    surf[s].program # "program" =>
      (surf[s].isRunning # "true" /\ surf[s].callbacks = <<>>)

\* C7: a stage that fails to compile leaves no shader object of that stage
\* on the context, createShader returns null for it and the failure is
\* printed with the stage's info log.
C7_FailedCompileReleasesShader ==
  \A s \in Surfaces :
    surf[s].gl = "ctx" =>
      /\ ~surf[s].outcome.vs =>
           /\ surf[s].vertexShader = "null"
           /\ "vs" \notin surf[s].objects
           /\ <<"Shader compilation error:", InfoLog("vs")>> \in surf[s].console
      /\ ~surf[s].outcome.fs =>
           /\ surf[s].fragmentShader = "null"
           /\ "fs" \notin surf[s].objects
           /\ <<"Shader compilation error:", InfoLog("fs")>> \in surf[s].console

\* The vertex stage compiled and the fragment stage did not.
C7_Witness ==
  \E s \in Surfaces :
    /\ surf[s].gl = "ctx"
    /\ surf[s].outcome.vs /\ ~surf[s].outcome.fs
    /\ surf[s].fragmentShader = "null"
    /\ surf[s].objects = {"vs"}

\* C8: gl.linkProgram is only called with two compiled shaders; when a stage
\* failed no program is created, no link is attempted and the failure is
\* printed with that stage's compiler log.
C8_NoLinkUnlessBothCompiled ==
  \A s \in Surfaces :
    /\ surf[s].linkCalls > 0 =>
         (surf[s].vertexShader = "vs" /\ surf[s].fragmentShader = "fs")
    /\ (surf[s].gl = "ctx" /\ ~(surf[s].outcome.vs /\ surf[s].outcome.fs)) =>
         /\ surf[s].linkCalls = 0
         /\ surf[s].program = "undefined"
         /\ <<"Failed to create shaders", "">> \in surf[s].console
         /\ \A stage \in {"vs", "fs"} :
              ~surf[s].outcome[stage] =>
                <<"Shader compilation error:", InfoLog(stage)>> \in surf[s].console

\* The vertex stage failed on a context and init returned before linking.
C8_Witness ==
  \E s \in Surfaces :
    /\ surf[s].gl = "ctx"
    /\ ~surf[s].outcome.vs
    /\ surf[s].linkCalls = 0
    /\ <<"Shader compilation error:", InfoLog("vs")>> \in surf[s].console

\* C9: after a failed link neither shader nor the program is alive on the
\* context.
C9_LinkFailureReleasesAll ==
  \A s \in Surfaces :
    (surf[s].gl = "ctx" /\ surf[s].linkCalls > 0 /\ ~surf[s].outcome.link) =>
      surf[s].objects \cap {"vs", "fs", "program"} = {}

\* C10: an intersection entry for a canvas invokes start (isIntersecting) or
\* stop (not) on the renderer of that canvas and on no other renderer, and
\* leaves that renderer running resp. stopped.
C10_GateCallsOwnSurface ==
  \A s \in Surfaces :
    /\ lastEvent = <<"intersection", s, "true">> =>
         (Invoked = {<<"start", s>>} /\ surf[s].isRunning = "true")
    /\ lastEvent = <<"intersection", s, "false">> =>
         (Invoked = {<<"stop", s>>} /\ surf[s].isRunning = "false"
            /\ surf[s].callbacks = <<>>)

\* The card canvas left the viewport while its renderer was running.
C10_Witness ==
  /\ lastEvent = <<"intersection", "card", "false">>
  /\ <<"stop", "card", "true">> \in calls
  /\ surf["card"].isRunning = "false"

\* C11: a renderer registered with the visibility gate is only running while
\* the latest intersection entry of its canvas reported it visible.
C11_RunningOnlyWhileVisible ==
  \A s \in Observed : surf[s].isRunning = "true" => visible[s] = "true"

\* C12: the hero canvas is never observed and never gets an intersection
\* entry, and from page initialisation until cleanup the hero renderer is
\* running, whatever entries the other canvases get.
C12_HeroBypassesGate ==
  /\ "hero" \notin Observed
  /\ visible["hero"] = "unknown"
  /\ (heroRenderer = "hero" /\ ~surf["hero"].destroyed) =>
       (surf["hero"].isRunning = "true" /\ Len(surf["hero"].callbacks) = 1)

\* Every gated canvas has been reported not visible, a frame has drawn the
\* hero and the hero renderer is still running.
C12_Witness ==
  /\ \A s \in Observed : visible[s] = "false"
  /\ Observed # {}
  /\ lastEvent[1] = "frame"
  /\ surf["hero"].draws = 1
  /\ surf["hero"].isRunning = "true"
  /\ ~surf["hero"].destroyed

\* C13: every stored glass parameter lies inside the range declared for its
\* field (a stored NaN, which C14 is about, is not counted against it).
C13_ParamsInRange ==
  \A f \in GlassFields :
    IsNaN(state[f]) \/ InRange(state[f], GlassRange[f][1], GlassRange[f][2])

\* C14: an input event whose value does not parse to a number (NaN) leaves
\* every stored parameter of the hero renderer as it was.
C14_NaNInputIgnored ==
  [][(/\ lastEvent'[1] = "input"
      /\ lastEvent'[2] \in FluidFields
      /\ IsNaN(parseFloat(lastEvent'[3])))
       => surf'["hero"].params = surf["hero"].params]_vars

\* A whole number is a power of two.
IsPowerOfTwo(n) ==
  \E k \in 0..47 :
    n = <<IF k < 16 THEN Pow2(k) ELSE 0,
          IF k >= 16 /\ k < 32 THEN Pow2(k - 16) ELSE 0,
          IF k >= 32 THEN Pow2(k - 32) ELSE 0>>

Dist(a, b) == IF a >= b THEN a - b ELSE b - a

\* C15: after setParticleCount(c), c >= 1, the stored count is a power of
\* two and no power of two is closer to c.
C15_NearestPowerOfTwo ==
  lastEvent[1] = "setParticleCount" =>
    LET c == lastEvent[3]
        p == Val(gpu.particleCount)
    IN /\ IsPowerOfTwo(gpu.particleCount)
       /\ \A k \in 0..12 : Dist(Pow2(k), c) >= Dist(p, c)

\* C16: after setParticleCount with the default workgroup size validate()
\* is true, and validate() is false whenever the count is not a power of two
\* or the workgroup size exceeds 256.
C16_ValidateIffWellFormed ==
  /\ (lastEvent[1] = "setParticleCount" /\ gpu.workgroupSize = 64) => validate(gpu)
  /\ (~IsPowerOfTwo(gpu.particleCount) \/ gpu.workgroupSize > 256) => ~validate(gpu)

\* C17: getDispatchCount() is the least d with d * workgroupSize >=
\* particleCount.
C17_DispatchCountIsCeiling ==
  Fits(gpu.particleCount) =>
    LET d == getDispatchCount(gpu)
    IN /\ d * gpu.workgroupSize >= Val(gpu.particleCount)
       /\ (d - 1) * gpu.workgroupSize < Val(gpu.particleCount)

\* 100 particles in workgroups of 64 need two dispatches.
C17_Witness ==
  /\ gpu.particleCount = FromInt(100)
  /\ gpu.workgroupSize = 64
  /\ getDispatchCount(gpu) = 2

\* C18: the metalness and roughness of a material configuration and of the
\* demo's material are numbers within [0, 1] at all times.
C18_MaterialWithinUnitRange ==
  /\ InRange(pbr.metalness, 0, 100)
  /\ InRange(pbr.roughness, 0, 100)
  /\ InRange(material.metalness, 0, 100)
  /\ InRange(material.roughness, 0, 100)

\* The integration rule for one component: the velocity after gravity (on
\* the y axis, isY, only), the position advanced by it, and, where the advanced
\* position lies beyond the bounds, the bound of the same sign and the
\* velocity times -0.8.
RuleFor(p, v, dtScale, g, b, isY) ==
  LET v1 == IF isY THEN Add(v, Mul(g, dtScale)) ELSE v
      p1 == Add(p, Mul(v1, dtScale))
  IN  IF Gt(MathAbs(p1), b)
      THEN [pos |-> IF p1.v > 0 THEN b ELSE Neg(b), vel |-> Num((-4 * v1.v) \div 5)]
      ELSE [pos |-> p1, vel |-> v1]

\* The particle of the example: x = 9 and vx = 20, at rest on the other axes.
ExampleStep ==
  step(<<Num(9 * Scale), Num(0), Num(0)>>, <<Num(20 * Scale), Num(0), Num(0)>>,
       Num(100), Num(0), Num(10 * Scale))

\* C19: a pass of the physics loop gives every component of every particle
\* the velocity and position of the integration rule (gravity on y only,
\* advance, clamp to the bound of the same sign and multiply the velocity by
\* -0.8 where the position went beyond the bounds); a particle at x = 9 with
\* vx = 20 and bounds 10 ends one step(1, 0, 10) at x = 10 with vx = -16.
C19_StepRule ==
  /\ lastEvent[1] = "animate" =>
       /\ Len(positions) = Len(stepped.pos)
       /\ Len(velocities) = Len(stepped.vel)
       /\ \A i \in 1..Len(stepped.pos) :
            LET r == RuleFor(stepped.pos[i], stepped.vel[i], stepped.dtScale,
                             stepped.gravity, stepped.bounds, i % 3 = 2)
            IN  positions[i] = r.pos /\ velocities[i] = r.vel
  /\ ExampleStep.pos[1] = Num(10 * Scale)
  /\ ExampleStep.vel[1] = Num(-16 * Scale)

\* A later pass under gravity has bounced one component off an upper wall
\* and another off a lower wall.
C19_Witness ==
  /\ lastEvent[1] = "animate"
  /\ stepped.n > 1
  /\ stepped.gravity = Num(-625)
  /\ \E i \in 1..Len(positions) :
       /\ Gt(Add(stepped.pos[i], Mul(stepped.vel[i], stepped.dtScale)), Bounds)
       /\ positions[i] = Bounds
       /\ Lt(velocities[i], Num(0))
  /\ \E i \in 1..Len(positions) :
       /\ positions[i] = Neg(Bounds)
       /\ Gt(velocities[i], Num(0))
       /\ Lt(stepped.vel[i], Num(0))

\* The three arrays the frame loop reads have one length, and after a change
\* of the particle count that length is three times the count.
ArraysAgree ==
  /\ Len(positions) = Len(velocities)
  /\ Len(velocities) = Len(colors)
  /\ lastEvent[2] = "compute-count" =>
       /\ particleCount.t = "number"
       /\ 100 * Len(positions) = 3 * particleCount.v

C22_UpdateParamsIsPure ==
  [][lastEvent'[1] = "updateParams" =>
       /\ \A k \in DOMAIN watch'.arg : fr'.params[k] = watch'.arg[k]
       /\ \A k \in (DOMAIN fr.params) \ (DOMAIN watch'.arg) : fr'.params[k] = fr.params[k]
       /\ fr'.time = fr.time
       /\ fr'.mouse = fr.mouse
       /\ fr'.isRunning = fr.isRunning
       /\ fr'.program = fr.program
       /\ fr'.draws = 0]_vars

\* C23: a render call, made by a frame on a renderer that has its program,
\* advances the time by deltaTime times the current speed parameter, makes
\* exactly one draw call, and changes neither the parameters nor the running
\* flag.
C23_RenderAdvancesBySpeed ==
  [][(lastEvent'[1] = "frame" /\ fr'.renders = 1 /\ fr.program = "program") =>
       /\ fr'.time.v - fr.time.v = fr'.deltas[1] * fr.params.speed.v * 10
       /\ fr'.draws = 1
       /\ fr'.params = fr.params
       /\ fr'.isRunning = fr.isRunning]_vars

\* The pointer is on the top-left pixel of the canvas.
AtTopLeft ==
  /\ lastEvent[1] = "mousemove"
  /\ watch.arg = [clientX |-> Rect.left, clientY |-> Rect.top]

\* C24 as stated: mouseleave stores (0, 0), and a pointer on the top-left
\* pixel of the canvas stores that same position.
C24_SentinelIsTopLeft ==
  /\ lastEvent[1] = "mouseleave" => (fr.mouse.x = 0 /\ fr.mouse.y = 0)
  /\ AtTopLeft => (fr.mouse.x = 0 /\ fr.mouse.y = 0)

\* C24, amended: mouseleave stores (0, 0); a pointer on the top-left pixel
\* of the canvas stores (0, canvas.height), which is not the sentinel unless
\* the canvas has height zero.
C24_TopLeftIsCanvasHeight ==
  /\ lastEvent[1] = "mouseleave" => (fr.mouse.x = 0 /\ fr.mouse.y = 0)
  /\ AtTopLeft =>
       /\ fr.mouse.x = 0
       /\ fr.mouse.y = fr.canvas.height
       /\ fr.canvas.height # 0 => ~(fr.mouse.x = 0 /\ fr.mouse.y = 0)

\* The pointer left the canvas and came back onto the top-left pixel of a
\* canvas that has a height.
C24_Witness ==
  /\ AtTopLeft
  /\ watch.prev = "mouseleave"
  /\ fr.canvas.height > 0
  /\ fr.mouse.y > 0

\* C25: stop, destroy and dispose called a second time in a row end without
\* an error and leave the object exactly as the first call left it.
C25_StopAndDisposeIdempotent ==
  [][/\ (lastEvent[1] = "stop" /\ lastEvent'[1] = "stop") => fr' = fr
     /\ (lastEvent[1] = "destroy" /\ lastEvent'[1] = "destroy") => fr' = fr
     /\ (lastEvent[1] = "dispose" /\ lastEvent'[1] = "dispose") =>
          (three'.threw = "none" /\ three' = three)]_vars

\* C26: after destroy, mousemove and mouseleave on the canvas leave the
\* renderer's stored mouse position as it was.
C26_DestroyDetachesListeners ==
  [][(fr.destroyed /\ lastEvent'[1] \in {"mousemove", "mouseleave"}) =>
       fr'.mouse = fr.mouse]_vars

\* C27: after a pass of the physics loop every position component lies
\* within [-bounds, bounds], and a component that was reflected has a
\* velocity that points back into the interior (or is zero) and whose
\* magnitude is 0.8 times the magnitude it had before the reflection.
C27_PositionsWithinBounds ==
  lastEvent[1] = "animate" =>
    \A i \in 1..Len(positions) :
      LET b  == stepped.bounds
          v1 == IF i % 3 = 2
                THEN Add(stepped.vel[i], Mul(stepped.gravity, stepped.dtScale))
                ELSE stepped.vel[i]
          p1 == Add(stepped.pos[i], Mul(v1, stepped.dtScale))
      IN  /\ InRange(positions[i], -b.v, b.v)
          /\ Gt(MathAbs(p1), b) =>
               /\ velocities[i].t = "number"
               /\ positions[i] = b => velocities[i].v <= 0
               /\ positions[i] = Neg(b) => velocities[i].v >= 0
               /\ 5 * MathAbs(velocities[i]).v = 4 * MathAbs(v1).v

\* C28: the time of a renderer that is not running does not change; the
\* first frame after a start that took effect has the delta measured from
\* that start call, so the time spent stopped is not added; and no delta
\* handed to render is negative while the host's timestamps do not decrease.
C28_PausedTimeNotAccumulated ==
  [][/\ fr.isRunning # "true" => fr'.time = fr.time
     /\ (lastEvent'[1] = "frame" /\ fr'.deltas # <<>>) =>
          /\ watch.first => fr'.deltas[1] = clock - watch.startedAt
          /\ \A i \in 1..Len(fr'.deltas) : fr'.deltas[i] >= 0
          /\ fr.program = "program" => fr'.time.v = fr.time.v + fr'.deltas[1]]_vars

\* A renderer that ran, was stopped while time passed, was started again and
\* has rendered its first frame since: the time holds the two run intervals
\* only.
C28_Witness ==
  /\ lastEvent[1] = "frame"
  /\ fr.deltas # <<>>
  /\ watch.stoppedAt > 0
  /\ watch.stoppedAt < watch.startedAt
  /\ fr.deltas[1] = clock - watch.startedAt
  /\ fr.deltas[1] > 0
  /\ fr.time.t = "number"
  /\ fr.time.v > fr.deltas[1]
  /\ fr.time.v < clock
  /\ fr.isRunning = "true"

\* C29: the scene of the compute demo holds exactly one particle-system
\* object, whatever number of particle-count changes has happened.
C29_OneParticleObject == Cardinality(scene.objects) = 1

\* C30: over any sequence of page initialisation and tab clicks each tab
\* demo is initialised at most once, so its canvas has at most one renderer
\* and at most one animation loop.
C30_DemoInitialisedOnce ==
  \A tabId \in Tabs :
    /\ demos[tabId].inits <= 1
    /\ demos[tabId].renderers <= 1
    /\ demos[tabId].loops <= 1

====
